---- MODULE Spec2Model ----
(***************************************************************************)
(* Content-based route recommendation with feedback-aware re-ranking.      *)
(*                                                                         *)
(* Model of backend/app/services/recommendation_service.py together with   *)
(* the two HTTP handlers that drive it: GET /routes/recommendations        *)
(* (backend/app/api/v1/routes.py) and POST /profiles/{id}/feedback         *)
(* (backend/app/api/v1/profiles.py).                                       *)
(*                                                                         *)
(* Number representation.  Python floats are modelled in fixed point:      *)
(*   - scores: integers in units of 1e-7 (ONE = 1.0); component scores are *)
(*     quantised to 4 decimals (multiples of QUANTUM), so that the weights *)
(*     0.4/0.3/0.3 and the penalties 0.5/0.1/0.01 are applied exactly;     *)
(*   - difficulty: half levels (difficulty 1.5 is 3), because every        *)
(*     adjustment moves a bound by 0.5 * weight with weight = 1.0;         *)
(*   - distances: metres (min/max_distance_km 5.0 is 5000).                *)
(* Optional[T] values are sequences of length <= 1: None is << >>.         *)
(***************************************************************************)
EXTENDS Integers, Sequences, FiniteSets, TLC

\* ------------------------------------------------------------------------
\* Bounds of the model
\* ------------------------------------------------------------------------
MaxFeedback == 4
MaxLimit == 2

\* longest tag list of a route in a direct call of extract_route_vector
MaxTags == 2

\* longest feedback list in a direct call of adjust_user_vector_with_feedback
MaxEntries == 3

\* ------------------------------------------------------------------------
\* Generic helpers standing for Python built-ins
\* ------------------------------------------------------------------------
None == << >>

Some(x) == << x >>

Min(a, b) == IF a <= b THEN a ELSE b

Max(a, b) == IF a >= b THEN a ELSE b

Range(s) == { s[i] : i \in 1..Len(s) }

\* a slice that keeps one element too many
SliceInclusive(s, n) ==
    IF n >= 0 THEN SubSeq(s, 1, Min(n + 1, Len(s)))
    ELSE SubSeq(s, 1, Max(0, Len(s) + n))

\* s[:n] of a Python list, negative n included
Slice(s, n) ==
    IF n >= 0 THEN SubSeq(s, 1, Min(n, Len(s)))
    ELSE SubSeq(s, 1, Max(0, Len(s) + n))

\* every order random.shuffle can leave a list in
RECURSIVE Shuffles(_)
Shuffles(s) ==
    IF Len(s) <= 1 THEN { s }
    ELSE UNION { { << s[i] >> \o rest :
                     rest \in Shuffles(SubSeq(s, 1, i - 1) \o SubSeq(s, i + 1, Len(s))) } :
                 i \in 1..Len(s) }

\* str.lower() on the tag alphabet of the model
lower(tag) ==
    CASE tag = "Scenic" -> "scenic"
      [] tag = "Flora" -> "flora"
      [] tag = "loopTour" -> "looptour"
      [] OTHER -> tag

\* ------------------------------------------------------------------------
\* Fixed-point scores
\* ------------------------------------------------------------------------
ONE == 10000000

QUANTUM == 1000

\* a / b of two non-negative integers as a score, to 4 decimals
Ratio(a, b) == ((a * 10000) \div b) * QUANTUM

\* ------------------------------------------------------------------------
\* Module constants of recommendation_service.py
\* ------------------------------------------------------------------------
CATEGORY_MAPPING ==
    [ running |-> {"Jogging", "Trail running"},
      hiking  |-> {"Theme trail", "Hiking trail"},
      cycling |-> {"Cycling", "Mountainbiking", "Long distance cycling"} ]

\* other weights that sum to 1.0: 0.5, 0.3, 0.2
SCORE_WEIGHTS_DIFFICULTY_FIRST == [ difficulty |-> 5, distance |-> 3, tags |-> 2 ]

\* weights in tenths: 0.4, 0.3, 0.3
SCORE_WEIGHTS == [ difficulty |-> 4, distance |-> 3, tags |-> 3 ]

\* the table with its multipliers in the opposite order
FEEDBACK_PENALTY_MULTIPLIERS_REVERSED ==
    [ count \in {1, 2, 3} |-> CASE count = 1 -> 1 [] count = 2 -> 10 [] OTHER -> 50 ]

\* multipliers in percent: 0.5, 0.1, 0.01
FEEDBACK_PENALTY_MULTIPLIERS == [ n \in {1, 2, 3} |-> CASE n = 1 -> 50 [] n = 2 -> 10 [] n = 3 -> 1 ]

FEEDBACK_FILTER_THRESHOLD == 4

NO_PENALTY == 100

\* w * s for a weight in tenths
Weighted(w, s) == (w * s) \div 10

\* the multiplier taken for a discount: (1 - p) * s
Discounted(p, s) == ((100 - p) * s) \div 100

\* p * s for a multiplier in percent
Penalised(p, s) == (p * s) \div 100

\* ------------------------------------------------------------------------
\* extract_route_vector
\* ------------------------------------------------------------------------
\* The tags_json column.  kind "null": the column is NULL; "empty": the
\* empty string; "invalid": text that is not JSON; "list": a JSON list;
\* "string", "number", "object", "jsonnull": JSON text of another type.
\* The elements of a list are strings ([t |-> "str", v |-> tag]), objects
\* with a string name ([t |-> "dict", v |-> tag]), objects whose name is
\* not a string ("dict_nonstr"), objects without a name ("dict_noname")
\* or numbers ("int").
TagsNull == [ kind |-> "null", items |-> << >> ]

TagsList(elems) == [ kind |-> "list", items |-> elems ]

\* a payload that is not a list
TagsOther(kind) == [ kind |-> kind, items |-> << >> ]

Str(tag) == [ t |-> "str", v |-> tag ]

Named(tag) == [ t |-> "dict", v |-> tag ]

\* {"name": 5}
NamedNumber == [ t |-> "dict_nonstr", v |-> "" ]

\* {"id": 5}
Unnamed == [ t |-> "dict_noname", v |-> "" ]

\* 5
Number == [ t |-> "int", v |-> "" ]

\* the loop over a parsed list: strings and {name} objects are
\* lower-cased, other elements are skipped; tag["name"].lower() raises
\* AttributeError when the name is not a string
flat_tags(items) ==
    LET F[i \in 0..Len(items)] ==
            IF i = 0 THEN << >>
            ELSE IF items[i].t \in {"str", "dict"}
                 THEN Append(F[i-1], lower(items[i].v))
                 ELSE F[i-1]
    IN [ raised |-> \E i \in 1..Len(items) : items[i].t = "dict_nonstr",
         tags |-> F[Len(items)] ]

\* the Python type of the value json.loads leaves in tags
TagsType(kind) ==
    CASE kind = "string"   -> "str"
      [] kind = "number"   -> "int"
      [] kind = "object"   -> "dict"
      [] kind = "jsonnull" -> "NoneType"
      [] OTHER             -> "list"

\* tags is the list of tags when tags_type is "list"; for a payload of
\* another JSON type the parsed value itself stays in tags (tags_type is
\* its Python type); raised: AttributeError left the function
extract_route_vector(route) ==
    LET parsed == flat_tags(route.tags_json.items)
    IN [ raised     |-> route.tags_json.kind = "list" /\ parsed.raised,
         difficulty |-> IF route.difficulty # None THEN route.difficulty[1] ELSE 0,
         length_km  |-> IF route.length_meters # None /\ route.length_meters[1] # 0
                        THEN route.length_meters[1] ELSE 0,
         tags       |-> IF route.tags_json.kind = "list" /\ ~ parsed.raised
                        THEN parsed.tags
                        ELSE << >>,
         tags_type  |-> TagsType(route.tags_json.kind) ]

\* ------------------------------------------------------------------------
\* Component scorers
\* ------------------------------------------------------------------------
SQRT_HALF == 7071000

\* 0.5 ** (k / 2) for a distance of k half levels, to 4 decimals
RECURSIVE Pow05(_)
Pow05(k) ==
    IF k <= 0 THEN ONE
    ELSE IF k = 1 THEN SQRT_HALF
    ELSE ((Pow05(k - 2) \div 2) \div QUANTUM) * QUANTUM

\* the score the docstring describes: 1.0 inside the range, else 0.0
calculate_difficulty_score_in_range_only(user_difficulty_range, route_difficulty) ==
    IF Len(user_difficulty_range) < 2 THEN ONE \div 2
    ELSE IF user_difficulty_range[1] <= 2 * route_difficulty
            /\ 2 * route_difficulty <= user_difficulty_range[2]
         THEN ONE
         ELSE 0

\* user_difficulty_range in half levels, route_difficulty in levels
calculate_difficulty_score(user_difficulty_range, route_difficulty) ==
    IF Len(user_difficulty_range) < 2 THEN ONE \div 2
    ELSE LET min_diff == user_difficulty_range[1]
             max_diff == user_difficulty_range[2]
             value    == 2 * route_difficulty
         IN IF min_diff <= value /\ value <= max_diff THEN ONE
            ELSE IF value < min_diff THEN Max(0, Pow05(min_diff - value))
            ELSE Max(0, Pow05(value - max_diff))

\* the exponent is kept with FRAC_BITS binary digits after the point
FRAC_BITS == 8

\* 0.7 ** (1 / 2^i), i = 1..FRAC_BITS, in units of 1e-4
ROOTS_07 == << 8367, 9147, 9564, 9780, 9889, 9944, 9972, 9986 >>

\* 0.7 ** (r / 2^FRAC_BITS) for r >= 0, to 4 decimals
Pow07(r) ==
    LET unit == 2 ^ FRAC_BITS
        n    == r \div unit
        f    == r % unit
        Mul(a, b) == (a * b) \div 10000
        IntPart[i \in 0..Min(n, 30)] == IF i = 0 THEN 10000 ELSE Mul(IntPart[i-1], 7000)
        FracPart[i \in 0..FRAC_BITS] ==
            IF i = 0 THEN IntPart[Min(n, 30)]
            ELSE IF (f \div (2 ^ (FRAC_BITS - i))) % 2 = 1
                 THEN Mul(FracPart[i-1], ROOTS_07[i])
                 ELSE FracPart[i-1]
    IN IF n >= 30 THEN 0 ELSE FracPart[FRAC_BITS] * QUANTUM

\* the value standing for an exception leaving a scorer
Raised == -1

\* all three arguments in metres
calculate_distance_score(user_min_km, user_max_km, route_length_km) ==
    IF route_length_km = 0 THEN 3 * (ONE \div 10)
    ELSE IF user_min_km <= route_length_km /\ route_length_km <= user_max_km THEN ONE
    ELSE IF user_max_km = 0 THEN Raised
    ELSE LET d == IF route_length_km < user_min_km
                  THEN user_min_km - route_length_km
                  ELSE route_length_km - user_max_km
             distance_ratio == (d * (2 ^ FRAC_BITS)) \div user_max_km
         IN Max(0, Pow07(distance_ratio))

\* the overlap divided by the number of user tags instead of the union
calculate_tag_score_of_user_tags(user_tags, route_tags) ==
    IF user_tags = << >> /\ route_tags = << >> THEN ONE \div 2
    ELSE IF user_tags = << >> \/ route_tags = << >> THEN 2 * (ONE \div 10)
    ELSE LET user_set  == { lower(t) : t \in Range(user_tags) }
             route_set == { lower(t) : t \in Range(route_tags) }
             intersection == user_set \cap route_set
         IN Ratio(Cardinality(intersection), Cardinality(user_set))

calculate_tag_score(user_tags, route_tags) ==
    IF user_tags = << >> /\ route_tags = << >> THEN ONE \div 2
    ELSE IF user_tags = << >> \/ route_tags = << >> THEN 2 * (ONE \div 10)
    ELSE LET user_set  == { lower(t) : t \in Range(user_tags) }
             route_set == { lower(t) : t \in Range(route_tags) }
             intersection == user_set \cap route_set
             union        == user_set \cup route_set
         IN IF Cardinality(union) = 0 THEN 0
            ELSE Ratio(Cardinality(intersection), Cardinality(union))

\* ------------------------------------------------------------------------
\* Preference vectors (the dict parsed from user_vector_json)
\* ------------------------------------------------------------------------
\* keys is the set of keys present in the dict; isdict is FALSE for a JSON
\* value that is not an object.
Vector(range, min_km, max_km, tags) ==
    [ isdict |-> TRUE,
      keys |-> {"difficulty_range", "min_distance_km", "max_distance_km", "preferred_tags"},
      difficulty_range |-> range,
      min_distance_km |-> min_km,
      max_distance_km |-> max_km,
      preferred_tags |-> tags ]

NotADict ==
    [ isdict |-> FALSE, keys |-> {},
      difficulty_range |-> << >>, min_distance_km |-> 0,
      max_distance_km |-> 0, preferred_tags |-> << >> ]

\* `vector.get(key) or default`: a present but falsy value (0, []) is
\* replaced by the default as well
get_or(vector, key, default) ==
    LET falsy == IF key \in {"min_distance_km", "max_distance_km"}
                 THEN vector[key] = 0
                 ELSE vector[key] = << >>
    IN IF key \in vector.keys /\ ~ falsy THEN vector[key] ELSE default

\* dict.get(key, default)
get(vector, key, default) == IF key \in vector.keys THEN vector[key] ELSE default

DEFAULT_RANGE == << 0, 6 >>

DEFAULT_MAX_KM == 100000

\* ------------------------------------------------------------------------
\* calculate_cbf_score
\* ------------------------------------------------------------------------
NoBreakdown ==
    [ difficulty |-> [ score |-> 0, weight |-> 0, weighted_score |-> 0 ],
      distance   |-> [ score |-> 0, weight |-> 0, weighted_score |-> 0 ],
      tags       |-> [ score |-> 0, weight |-> 0, weighted_score |-> 0 ],
      total |-> 0,
      feedback_adjusted |-> FALSE, base_score |-> 0, final_score |-> 0,
      has_penalty |-> FALSE, feedback_penalty |-> 0, feedback_count |-> 0 ]

\* [raised, score, breakdown]; raised when the vector is not a dict
\* (.get on a list, number, string or None) or a scorer raises
calculate_cbf_score(user_vector, route_vector) ==
    IF ~ user_vector.isdict
    THEN [ raised |-> TRUE, score |-> 0, breakdown |-> NoBreakdown ]
    ELSE
    LET difficulty_score ==
            calculate_difficulty_score(
                get(user_vector, "difficulty_range", DEFAULT_RANGE),
                route_vector.difficulty)
        distance_score ==
            calculate_distance_score(
                get(user_vector, "min_distance_km", 0),
                get(user_vector, "max_distance_km", DEFAULT_MAX_KM),
                route_vector.length_km)
        tag_score ==
            calculate_tag_score(
                get(user_vector, "preferred_tags", << >>),
                route_vector.tags)
        final_score ==
            Weighted(SCORE_WEIGHTS.difficulty, difficulty_score)
            + Weighted(SCORE_WEIGHTS.distance, distance_score)
            + Weighted(SCORE_WEIGHTS.tags, tag_score)
    IN IF distance_score = Raised
       THEN [ raised |-> TRUE, score |-> 0, breakdown |-> NoBreakdown ]
       ELSE [ raised |-> FALSE,
              score |-> final_score,
              breakdown |->
                [ difficulty |-> [ score |-> difficulty_score,
                                   weight |-> SCORE_WEIGHTS.difficulty,
                                   weighted_score |-> Weighted(SCORE_WEIGHTS.difficulty, difficulty_score) ],
                  distance   |-> [ score |-> distance_score,
                                   weight |-> SCORE_WEIGHTS.distance,
                                   weighted_score |-> Weighted(SCORE_WEIGHTS.distance, distance_score) ],
                  tags       |-> [ score |-> tag_score,
                                   weight |-> SCORE_WEIGHTS.tags,
                                   weighted_score |-> Weighted(SCORE_WEIGHTS.tags, tag_score) ],
                  total |-> final_score,
                  feedback_adjusted |-> FALSE, base_score |-> 0, final_score |-> 0,
                  has_penalty |-> FALSE, feedback_penalty |-> 0, feedback_count |-> 0 ] ]

\* ------------------------------------------------------------------------
\* calculate_feedback_penalty
\* ------------------------------------------------------------------------
\* [f for f in feedback_entries if f.route_id == route_id]
route_feedback(route_id, feedback_entries) ==
    SelectSeq(feedback_entries, LAMBDA f : f.route_id = route_id)

\* a penalty that counts every entry of the history, whatever its route
calculate_feedback_penalty_any_route(route_id, feedback_entries) ==
    LET feedback_count == Len(feedback_entries)
    IN IF feedback_count = 0 THEN NO_PENALTY
       ELSE IF feedback_count >= 3 THEN FEEDBACK_PENALTY_MULTIPLIERS[3]
       ELSE IF feedback_count = 2 THEN FEEDBACK_PENALTY_MULTIPLIERS[2]
       ELSE FEEDBACK_PENALTY_MULTIPLIERS[1]

\* the multiplier in percent
calculate_feedback_penalty(route_id, feedback_entries) ==
    LET feedback_count == Len(route_feedback(route_id, feedback_entries))
    IN IF feedback_count = 0 THEN NO_PENALTY
       ELSE IF feedback_count >= 3 THEN FEEDBACK_PENALTY_MULTIPLIERS[3]
       ELSE IF feedback_count = 2 THEN FEEDBACK_PENALTY_MULTIPLIERS[2]
       ELSE FEEDBACK_PENALTY_MULTIPLIERS[1]

\* ------------------------------------------------------------------------
\* adjust_user_vector_with_feedback
\* ------------------------------------------------------------------------
\* 0.5 * weight in half levels; days_ago is always 0.0, so weight is 1.0
HALF_STEP == 1

\* the 2 km kept between min and max distance, in metres
MIN_GAP == 2000

\* too-hard as the docstring words it: only the maximum is lowered
TooHardMaxOnly(range) == << range[1], Max(0, range[2] - HALF_STEP) >>

TooHard(range) ==
    LET new_min == Max(0, range[1] - HALF_STEP)
        new_max == Max(0, range[2] - HALF_STEP)
    IN << new_min, IF new_min = 0 /\ new_max < 2 THEN 2 ELSE new_max >>

\* too-easy as the docstring words it: only the minimum is raised
TooEasyMinOnly(range) == << Min(6, range[1] + HALF_STEP), range[2] >>

TooEasy(range) ==
    LET new_min == Min(6, range[1] + HALF_STEP)
        new_max == Min(6, range[2] + HALF_STEP)
    IN << IF new_max = 6 /\ new_min > 4 THEN 4 ELSE new_min, new_max >>

\* too-far without the gap kept above min_distance_km
TooFarUnclamped(vector) == (vector.max_distance_km * 9) \div 10

TooFar(vector) ==
    LET new_max == (vector.max_distance_km * 9) \div 10
        min_allowed_max == get(vector, "min_distance_km", 0) + MIN_GAP
    IN Max(new_max, min_allowed_max)

\* not-interested comparing the tags as they are spelled
NotInterestedExact(preferred_tags, route_tags) ==
    SelectSeq(preferred_tags, LAMBDA tag : tag \notin Range(route_tags))

NotInterested(preferred_tags, route_tags) ==
    LET route_tag_set == { lower(t) : t \in Range(route_tags) }
    IN SelectSeq(preferred_tags, LAMBDA tag : lower(tag) \notin route_tag_set)

\* one pass of the loop body; route_vectors maps route ids to vectors
ApplyFeedback(adjusted, f, route_vectors) ==
    IF f.route_id \notin DOMAIN route_vectors THEN adjusted
    ELSE CASE f.reason = "too-hard" ->
                [adjusted EXCEPT !.difficulty_range = TooHard(@)]
           [] f.reason = "too-easy" ->
                [adjusted EXCEPT !.difficulty_range = TooEasy(@)]
           [] f.reason = "too-far" ->
                [adjusted EXCEPT !.max_distance_km = TooFar(adjusted)]
           [] f.reason = "not-interested" ->
                [adjusted EXCEPT !.preferred_tags =
                    NotInterested(@, route_vectors[f.route_id].tags)]
           [] OTHER -> adjusted

\* [raised, vector]; raised when user_vector is not a dict or when its
\* difficulty_range has fewer than two bounds (IndexError)
adjust_user_vector_with_feedback(user_vector, feedback_entries, route_vectors) ==
    IF ~ user_vector.isdict \/ Len(get(user_vector, "difficulty_range", DEFAULT_RANGE)) < 2
    THEN [ raised |-> TRUE, vector |-> user_vector ]
    ELSE
    LET initial ==
            [ user_vector EXCEPT
                !.keys = @ \cup {"difficulty_range", "max_distance_km", "preferred_tags"},
                !.difficulty_range = get(user_vector, "difficulty_range", DEFAULT_RANGE),
                !.max_distance_km = get(user_vector, "max_distance_km", DEFAULT_MAX_KM),
                !.preferred_tags = get(user_vector, "preferred_tags", << >>) ]
        Loop[i \in 0..Len(feedback_entries)] ==
            IF i = 0 THEN initial
            ELSE ApplyFeedback(Loop[i-1], feedback_entries[i], route_vectors)
        after == Loop[Len(feedback_entries)]
        valid_range ==
            IF after.difficulty_range[1] > after.difficulty_range[2]
            THEN get(user_vector, "difficulty_range", DEFAULT_RANGE)
            ELSE after.difficulty_range
        positive_max ==
            IF after.max_distance_km <= 0
            THEN get(user_vector, "max_distance_km", DEFAULT_MAX_KM)
            ELSE after.max_distance_km
    IN [ raised |-> FALSE,
         vector |-> [ after EXCEPT !.difficulty_range = valid_range,
                                   !.max_distance_km = positive_max ] ]

\* ------------------------------------------------------------------------
\* adjust_user_vector_with_feedback on objects
\* ------------------------------------------------------------------------
\* The same function, statement by statement, on the objects it works on:
\* u is the caller's dict, a the dict bound to adjusted_vector.  same_dict:
\* both names are bound to one dict; same_range / same_tags: the
\* difficulty_range / preferred_tags of a is the very list object u holds,
\* so that a write into the list is seen through both.

\* adjusted_vector = user_vector (no copy at all)
bind(user_vector) ==
    [ u |-> user_vector, a |-> user_vector,
      same_dict |-> TRUE, same_range |-> TRUE, same_tags |-> TRUE ]

\* adjusted_vector = user_vector.copy(): a new dict holding the same values
copy(user_vector) ==
    [ u |-> user_vector, a |-> user_vector,
      same_dict |-> FALSE, same_range |-> TRUE, same_tags |-> TRUE ]

\* adjusted_vector[key] = value; shared: value is the object u holds
setitem(h, key, value, shared) ==
    LET a2 == [ h.a EXCEPT ![key] = value, !.keys = @ \cup {key} ]
    IN [ h EXCEPT !.a = a2,
                  !.u = IF h.same_dict THEN a2 ELSE @,
                  !.same_range = IF key = "difficulty_range" THEN shared ELSE @,
                  !.same_tags = IF key = "preferred_tags" THEN shared ELSE @ ]

\* the two element writes with their indices exchanged
setrange_exchanged(h, range) ==
    [ h EXCEPT !.a.difficulty_range = << range[2], range[1] >>,
               !.u.difficulty_range =
                    IF h.same_dict \/ h.same_range THEN << range[2], range[1] >> ELSE @ ]

\* adjusted_vector["difficulty_range"][0] = new_min; ...[1] = new_max
setrange(h, range) ==
    [ h EXCEPT !.a.difficulty_range = range,
               !.u.difficulty_range =
                    IF h.same_dict \/ h.same_range THEN range ELSE @ ]

\* the loop body with the two difficulty branches taking each other's step
ApplyFeedbackInPlaceMirrored(h, f, route_vectors) ==
    IF f.route_id \notin DOMAIN route_vectors THEN h
    ELSE CASE f.reason = "too-hard" -> setrange(h, TooEasy(h.a.difficulty_range))
           [] f.reason = "too-easy" -> setrange(h, TooHard(h.a.difficulty_range))
           [] f.reason = "too-far" ->
                setitem(h, "max_distance_km", TooFar(h.a), FALSE)
           [] f.reason = "not-interested" ->
                setitem(h, "preferred_tags",
                        NotInterested(h.a.preferred_tags, route_vectors[f.route_id].tags),
                        FALSE)
           [] OTHER -> h

\* one pass of the loop body
ApplyFeedbackInPlace(h, f, route_vectors) ==
    IF f.route_id \notin DOMAIN route_vectors THEN h
    ELSE CASE f.reason = "too-hard" -> setrange(h, TooHard(h.a.difficulty_range))
           [] f.reason = "too-easy" -> setrange(h, TooEasy(h.a.difficulty_range))
           [] f.reason = "too-far" ->
                setitem(h, "max_distance_km", TooFar(h.a), FALSE)
           [] f.reason = "not-interested" ->
                setitem(h, "preferred_tags",
                        NotInterested(h.a.preferred_tags, route_vectors[f.route_id].tags),
                        FALSE)
           [] OTHER -> h

\* [raised, vector, user_vector, feedback_entries, route_vectors, fallbacks]:
\* what is returned, the three arguments as the caller finds them afterwards,
\* and the keys the two closing checks reset to the caller's value
adjust_user_vector_with_feedback_objects(user_vector, feedback_entries, route_vectors) ==
    IF ~ user_vector.isdict
    THEN [ raised |-> TRUE, vector |-> user_vector, user_vector |-> user_vector,
           feedback_entries |-> feedback_entries, route_vectors |-> route_vectors,
           fallbacks |-> {} ]
    ELSE
    LET h0 == copy(user_vector)
        h1 == setitem(h0, "difficulty_range",
                      get(h0.a, "difficulty_range", DEFAULT_RANGE), FALSE)
        h2 == setitem(h1, "max_distance_km",
                      get(h1.a, "max_distance_km", DEFAULT_MAX_KM), FALSE)
        h3 == setitem(h2, "preferred_tags", get(h2.a, "preferred_tags", << >>), FALSE)
        Loop[i \in 0..Len(feedback_entries)] ==
            IF i = 0 THEN h3
            ELSE ApplyFeedbackInPlace(Loop[i-1], feedback_entries[i], route_vectors)
        h4 == Loop[Len(feedback_entries)]
        h5 == IF h4.a.difficulty_range[1] > h4.a.difficulty_range[2]
              THEN setitem(h4, "difficulty_range",
                           get(h4.u, "difficulty_range", DEFAULT_RANGE),
                           "difficulty_range" \in h4.u.keys)
              ELSE h4
        h6 == IF h5.a.max_distance_km <= 0
              THEN setitem(h5, "max_distance_km",
                           get(h5.u, "max_distance_km", DEFAULT_MAX_KM), FALSE)
              ELSE h5
    IN IF Len(h3.a.difficulty_range) < 2
       THEN [ raised |-> TRUE, vector |-> h3.a, user_vector |-> h3.u,
              feedback_entries |-> feedback_entries, route_vectors |-> route_vectors,
              fallbacks |-> {} ]
       ELSE [ raised |-> FALSE, vector |-> h6.a, user_vector |-> h6.u,
              feedback_entries |-> feedback_entries, route_vectors |-> route_vectors,
              fallbacks |->
                (IF h4.a.difficulty_range[1] > h4.a.difficulty_range[2]
                 THEN {"difficulty_range"} ELSE {})
                \cup (IF h5.a.max_distance_km <= 0 THEN {"max_distance_km"} ELSE {}) ]

\* ------------------------------------------------------------------------
\* The record store
\* ------------------------------------------------------------------------
\* rows of the routes table, in the order an unordered SELECT returns them
Routes ==
    << [ id |-> 1, category_name |-> Some("Hiking trail"),
         difficulty |-> Some(1), length_meters |-> Some(12000),
         tags_json |-> TagsList(<< Str("scenic"), Str("flora") >>) ],
       [ id |-> 2, category_name |-> Some("Theme trail"),
         difficulty |-> Some(1), length_meters |-> Some(12000),
         tags_json |-> TagsList(<< Named("Scenic"), Named("Flora") >>) ],
       [ id |-> 3, category_name |-> Some("Jogging"),
         difficulty |-> Some(3), length_meters |-> Some(30000),
         tags_json |-> TagsList(<< Str("panorama") >>) ],
       [ id |-> 4, category_name |-> None,
         difficulty |-> None, length_meters |-> None,
         tags_json |-> TagsNull ] >>

RouteIds == { Routes[i].id : i \in 1..Len(Routes) }

\* the user_vector_json column of a profile
JsonNull == [ kind |-> "null", obj |-> NotADict ]

JsonInvalid == [ kind |-> "invalid", obj |-> NotADict ]

JsonValue == [ kind |-> "value", obj |-> NotADict ]

\* json.dumps(vector)
json_dumps(vector) == [ kind |-> "object", obj |-> vector ]

\* json.loads(text): [raised, value]
json_loads(text) ==
    CASE text.kind = "object" -> [ raised |-> FALSE, value |-> text.obj ]
      [] text.kind = "value"  -> [ raised |-> FALSE, value |-> NotADict ]
      [] OTHER                -> [ raised |-> TRUE,  value |-> NotADict ]

\* `not profile.user_vector_json`: NULL or the empty string
Falsy(text) == text.kind \in {"null", "empty"}

\* translate_questionnaire_to_vector for two questionnaires
FITNESS_MAPPING ==
    [ beginner     |-> [ difficulty_range |-> << 0, 2 >>,
                         max_distance_km |-> 8000, min_distance_km |-> 0 ],
      intermediate |-> [ difficulty_range |-> << 2, 4 >>,
                         max_distance_km |-> 20000, min_distance_km |-> 5000 ],
      advanced     |-> [ difficulty_range |-> << 4, 6 >>,
                         max_distance_km |-> 50000, min_distance_km |-> 10000 ] ]

ADVENTURE_TYPE_TO_TAGS ==
    [ natural_scenery |-> << "flora", "fauna", "panorama", "scenic", "geology" >>,
      family_fun |-> << "suitableforfamilies", "playground", "dining", "loopTour" >> ]

translate_questionnaire_to_vector(fitness, preferred_tags) ==
    Vector(FITNESS_MAPPING[fitness].difficulty_range,
           FITNESS_MAPPING[fitness].min_distance_km,
           FITNESS_MAPPING[fitness].max_distance_km,
           preferred_tags)

\* the profile ids the model uses: PROFILE exists, GHOST does not
PROFILE == 1

GHOST == 2

\* what POST /feedback may carry: (route_id, reason)
FeedbackChoices ==
    { << 1, "too-hard" >>, << 1, "not-interested" >>, << 3, "too-far" >> }

\* the category query parameter values tried
Categories == { None, Some("running"), Some("hiking"), Some("cycling"), Some("skiing") }

VARIABLES
    profiles,   \* demo_profiles: id -> [user_vector_json]
    feedback,   \* profile_feedback rows, in insertion order
    last        \* the most recent request and its response

vars == << profiles, feedback, last >>

\* ------------------------------------------------------------------------
\* get_recommended_routes
\* ------------------------------------------------------------------------
\* select(Route), with the category filter when the key is a known one
Candidates(category) ==
    IF category # None /\ category[1] \in DOMAIN CATEGORY_MAPPING
    THEN SelectSeq(Routes, LAMBDA r :
            r.category_name # None
            /\ r.category_name[1] \in CATEGORY_MAPPING[category[1]])
    ELSE Routes

\* a LIMIT that fetches one row too many
SqlLimitPlusOne(rows, n) == IF n < 0 THEN rows ELSE SubSeq(rows, 1, Min(n + 1, Len(rows)))

\* query.limit(n) on SQLite: a negative LIMIT is no limit
SqlLimit(rows, n) == IF n < 0 THEN rows ELSE SubSeq(rows, 1, Min(n, Len(rows)))

\* a route returned without recommendation_score attributes
Unscored(route) ==
    [ id |-> route.id, scored |-> FALSE,
      recommendation_score |-> 0,
      recommendation_score_breakdown |-> NoBreakdown ]

\* the second query (selectinload) and the list rebuilt from it, in the
\* order of the selected routes
LoadRelations(selected) ==
    LET routes_with_relations == { it.id : it \in Range(selected) } \cap RouteIds
    IN SelectSeq(selected, LAMBDA it : it.id \in routes_with_relations)

\* an ascending stable sort followed by reverse(): ties come out reversed
SortAscendingThenReverse(route_scores) ==
    LET Insert(sorted, x) ==
            LET ahead == SelectSeq(sorted, LAMBDA y : y.recommendation_score > x.recommendation_score)
                behind == SelectSeq(sorted, LAMBDA y : y.recommendation_score <= x.recommendation_score)
            IN ahead \o << x >> \o behind
        S[i \in 0..Len(route_scores)] ==
            IF i = 0 THEN << >> ELSE Insert(S[i-1], route_scores[i])
    IN S[Len(route_scores)]

\* list.sort(key=final_score, reverse=True): stable, descending
SortByScore(route_scores) ==
    LET Insert(sorted, x) ==
            LET ahead == SelectSeq(sorted, LAMBDA y : y.recommendation_score >= x.recommendation_score)
                behind == SelectSeq(sorted, LAMBDA y : y.recommendation_score < x.recommendation_score)
            IN ahead \o << x >> \o behind
        S[i \in 0..Len(route_scores)] ==
            IF i = 0 THEN << >> ELSE Insert(S[i-1], route_scores[i])
    IN S[Len(route_scores)]

\* sum(1 for f in feedback_entries if f.route_id == route.id)
route_feedback_count(route_id, feedback_entries) ==
    Cardinality({ i \in 1..Len(feedback_entries) : feedback_entries[i].route_id = route_id })

\* a filter that lets the item through at the threshold itself
over_threshold(count) == count > FEEDBACK_FILTER_THRESHOLD

\* route_feedback_count >= FEEDBACK_FILTER_THRESHOLD
should_filter(count) == count >= FEEDBACK_FILTER_THRESHOLD

\* one pass of the scoring loop: [skipped, raised, item]
ScoreRoute(route, route_vector, adjusted_user_vector, feedback_entries) ==
    LET count == route_feedback_count(route.id, feedback_entries)
        cbf == calculate_cbf_score(adjusted_user_vector, route_vector)
        base_score == cbf.score
        penalty_multiplier == calculate_feedback_penalty(route.id, feedback_entries)
        final_score == Penalised(penalty_multiplier, base_score)
    IN IF should_filter(count)
       THEN [ skipped |-> TRUE, raised |-> FALSE, item |-> Unscored(route) ]
       ELSE IF cbf.raised
       THEN [ skipped |-> FALSE, raised |-> TRUE, item |-> Unscored(route) ]
       ELSE [ skipped |-> FALSE, raised |-> FALSE,
              item |-> [ id |-> route.id, scored |-> TRUE,
                         recommendation_score |-> final_score,
                         recommendation_score_breakdown |->
                            [ cbf.breakdown EXCEPT
                                !.feedback_adjusted = TRUE,
                                !.base_score = base_score,
                                !.final_score = final_score,
                                !.has_penalty = (penalty_multiplier < NO_PENALTY),
                                !.feedback_penalty =
                                    IF penalty_multiplier < NO_PENALTY THEN penalty_multiplier ELSE 0,
                                !.feedback_count =
                                    IF penalty_multiplier < NO_PENALTY THEN count ELSE 0 ] ] ]

\* the vector the scoring loop uses: [raised, vector]
AdjustedVector(user_vector, feedback_entries, routes) ==
    LET route_vectors == [ id \in { r.id : r \in Range(routes) } |->
                            extract_route_vector(CHOOSE r \in Range(routes) : r.id = id) ]
    IN IF feedback_entries # << >>
       THEN adjust_user_vector_with_feedback(user_vector, feedback_entries, route_vectors)
       ELSE [ raised |-> FALSE, vector |-> user_vector ]

\* the outcomes of random.shuffle(routes); routes[:limit]
RandomRoutes(routes, limit) ==
    { [ i \in 1..Len(Slice(sh, limit)) |-> Unscored(sh[i]) ] : sh \in Shuffles(routes) }

Outcome(raised, path, routes) == [ raised |-> raised, path |-> path, routes |-> routes ]

\* the set of results a call can produce on the store (db_profiles,
\* db_feedback); path names the branch that returned
get_recommended_routes(db_profiles, db_feedback, profile_id, category, limit) ==
    LET all == Candidates(category)
    IN IF profile_id = None
       THEN { Outcome(FALSE, "random", LoadRelations(rs)) :
                rs \in RandomRoutes(SqlLimit(all, limit * 3), limit) }
       ELSE
       LET routes == all
           found == profile_id[1] \in DOMAIN db_profiles
           text == IF found THEN db_profiles[profile_id[1]].user_vector_json ELSE JsonNull
           parsed == json_loads(text)
       IN IF ~ found \/ Falsy(text) \/ parsed.raised
          THEN { Outcome(FALSE, "fallback", rs) : rs \in RandomRoutes(routes, limit) }
          ELSE
          LET user_vector == parsed.value
              feedback_entries ==
                  SelectSeq(db_feedback, LAMBDA f : f.demo_profile_id = profile_id[1])
              adjusted == AdjustedVector(user_vector, feedback_entries, routes)
              scored == [ i \in 1..Len(routes) |->
                            ScoreRoute(routes[i], extract_route_vector(routes[i]),
                                       adjusted.vector, feedback_entries) ]
              kept == SelectSeq(scored, LAMBDA s : ~ s.skipped)
              route_scores == SortByScore([ i \in 1..Len(kept) |-> kept[i].item ])
          IN IF adjusted.raised \/ \E i \in 1..Len(kept) : kept[i].raised
             THEN { Outcome(TRUE, "personalized", << >>) }
             ELSE { Outcome(FALSE, "personalized",
                            LoadRelations(Slice(route_scores, limit))) }

\* ------------------------------------------------------------------------
\* The handlers
\* ------------------------------------------------------------------------
HTTP_200_OK == 200

HTTP_201_CREATED == 201

HTTP_404_NOT_FOUND == 404

\* an exception that leaves a handler
HTTP_500_INTERNAL_SERVER_ERROR == 500

Idle ==
    [ op |-> "none", profile_id |-> None, category |-> None, limit |-> 0,
      route_id |-> 0, reason |-> "",
      status |-> 0, path |-> "", routes |-> << >>, total |-> 0,
      is_personalized |-> FALSE ]

\* the questionnaire vectors a profile can start from
QuestionnaireVectors ==
    { translate_questionnaire_to_vector("intermediate", ADVENTURE_TYPE_TO_TAGS.natural_scenery),
      translate_questionnaire_to_vector("beginner", << >>) }

\* what the user_vector_json column can hold when the model starts
InitialPayloads ==
    { JsonNull, JsonInvalid, JsonValue }
    \cup { json_dumps(v) : v \in QuestionnaireVectors }

Init ==
    /\ profiles \in { [ id \in {PROFILE} |-> [ user_vector_json |-> text ] ] :
                        text \in InitialPayloads }
    /\ feedback = << >>
    /\ last = Idle

\* RecommendationResponse(routes, total, is_personalized)
RecommendationResponse(profile_id, category, limit, outcome) ==
    [ Idle EXCEPT
        !.op = "recommendations",
        !.profile_id = profile_id, !.category = category, !.limit = limit,
        !.status = IF outcome.raised THEN HTTP_500_INTERNAL_SERVER_ERROR ELSE HTTP_200_OK,
        !.path = outcome.path,
        !.routes = outcome.routes,
        !.total = Len(outcome.routes),
        !.is_personalized = (~ outcome.raised /\ profile_id # None) ]

\* a handler that saves the vector it adjusted for the call in the profile
get_route_recommendations_saving(profile_id, category, limit) ==
    /\ last = Idle
    /\ IF profile_id # None /\ profile_id[1] \notin DOMAIN profiles
       THEN /\ last' = [ Idle EXCEPT !.op = "recommendations",
                           !.profile_id = profile_id, !.category = category,
                           !.limit = limit, !.status = HTTP_404_NOT_FOUND ]
            /\ UNCHANGED profiles
       ELSE /\ \E outcome \in get_recommended_routes(profiles, feedback, profile_id, category, limit) :
                   last' = RecommendationResponse(profile_id, category, limit, outcome)
            /\ profiles' =
                  IF /\ profile_id # None
                     /\ last'.status = HTTP_200_OK
                     /\ last'.path = "personalized"
                     /\ \E i \in 1..Len(feedback) : feedback[i].demo_profile_id = profile_id[1]
                  THEN [ profiles EXCEPT ![profile_id[1]].user_vector_json =
                            json_dumps(AdjustedVector(
                                json_loads(@).value,
                                SelectSeq(feedback, LAMBDA f : f.demo_profile_id = profile_id[1]),
                                Candidates(category)).vector) ]
                  ELSE profiles
    /\ UNCHANGED feedback

\* GET /routes/recommendations
get_route_recommendations(profile_id, category, limit) ==
    /\ last = Idle
    /\ IF profile_id # None /\ profile_id[1] \notin DOMAIN profiles
       THEN last' = [ Idle EXCEPT !.op = "recommendations",
                        !.profile_id = profile_id, !.category = category,
                        !.limit = limit, !.status = HTTP_404_NOT_FOUND ]
       ELSE \E outcome \in get_recommended_routes(profiles, feedback, profile_id, category, limit) :
                last' = RecommendationResponse(profile_id, category, limit, outcome)
    /\ UNCHANGED << profiles, feedback >>

\* the vector submit_feedback writes back: [changed, text]
UpdatedVector(text, all_feedback, route) ==
    LET parsed == json_loads(text)
        ids == { route.id } \cup ({ f.route_id : f \in Range(all_feedback) } \cap RouteIds)
        route_vectors == [ id \in ids |->
                            extract_route_vector(CHOOSE r \in Range(Routes) : r.id = id) ]
        adjusted == adjust_user_vector_with_feedback(parsed.value, all_feedback, route_vectors)
    IN IF Falsy(text) \/ parsed.raised \/ adjusted.raised
       THEN [ changed |-> FALSE, text |-> text ]
       ELSE [ changed |-> TRUE, text |-> json_dumps(adjusted.vector) ]

\* POST /profiles/{profile_id}/feedback
submit_feedback(profile_id, route_id, reason) ==
    LET request == [ Idle EXCEPT !.op = "feedback", !.profile_id = Some(profile_id),
                       !.route_id = route_id, !.reason = reason ]
    IN
    /\ last = Idle
    /\ Len(feedback) < MaxFeedback
    /\ IF profile_id \notin DOMAIN profiles \/ route_id \notin RouteIds
       THEN /\ last' = [ request EXCEPT !.status = HTTP_404_NOT_FOUND ]
            /\ UNCHANGED << profiles, feedback >>
       ELSE LET new_feedback == [ demo_profile_id |-> profile_id,
                                  route_id |-> route_id, reason |-> reason ]
                all_feedback == SelectSeq(Append(feedback, new_feedback),
                                    LAMBDA f : f.demo_profile_id = profile_id)
                route == CHOOSE r \in Range(Routes) : r.id = route_id
                updated == UpdatedVector(profiles[profile_id].user_vector_json,
                                         all_feedback, route)
            IN /\ feedback' = Append(feedback, new_feedback)
               /\ profiles' = [ profiles EXCEPT ![profile_id].user_vector_json = updated.text ]
               /\ last' = [ request EXCEPT !.status = HTTP_201_CREATED ]

\* the response is sent and the request's session is closed
close_session ==
    /\ last # Idle
    /\ last' = Idle
    /\ UNCHANGED << profiles, feedback >>

Limits == -1..MaxLimit

ProfileIds == { None, Some(PROFILE), Some(GHOST) }

Next ==
    \/ \E profile_id \in ProfileIds, category \in Categories, limit \in Limits :
            get_route_recommendations(profile_id, category, limit)
    \/ \E profile_id \in {PROFILE, GHOST}, c \in FeedbackChoices :
            submit_feedback(profile_id, c[1], c[2])
    \/ close_session

Spec == Init /\ [][Next]_vars

\* ------------------------------------------------------------------------
\* Direct calls of extract_route_vector
\* ------------------------------------------------------------------------
\* In the specifications of direct calls the store is left as created and
\* last holds the call and what it returned.
NoProfiles == [ id \in {PROFILE} |-> [ user_vector_json |-> JsonNull ] ]

\* the elements a tag list is made of
TagItems ==
    { Str("scenic"), Str("Flora"), Named("Scenic"), NamedNumber, Unnamed, Number }

RECURSIVE TagLists(_)
TagLists(n) ==
    IF n = 0 THEN { << >> }
    ELSE TagLists(n - 1)
         \cup { Append(l, e) : l \in { x \in TagLists(n - 1) : Len(x) = n - 1 }, e \in TagItems }

\* what the tags_json column of a route can hold
TagPayloads ==
    { TagsNull }
    \cup { TagsOther(k) : k \in {"empty", "invalid", "string", "number", "object", "jsonnull"} }
    \cup { TagsList(l) : l \in TagLists(MaxTags) }

\* the rows extract_route_vector is called on
RouteRows ==
    { [ id |-> 1, category_name |-> None, difficulty |-> d, length_meters |-> m,
        tags_json |-> t ] :
        d \in { None, Some(0), Some(2) }, m \in { None, Some(0), Some(1500) },
        t \in TagPayloads }

InitExtract ==
    /\ profiles = NoProfiles
    /\ feedback = << >>
    /\ last = Idle

\* route_vector = extract_route_vector(route)
call_extract_route_vector(route) ==
    /\ last = Idle
    /\ last' = [ op |-> "extract_route_vector", route |-> route,
                 result |-> extract_route_vector(route) ]
    /\ UNCHANGED << profiles, feedback >>

NextExtract == \E route \in RouteRows : call_extract_route_vector(route)

SpecExtract == InitExtract /\ [][NextExtract]_vars

\* ------------------------------------------------------------------------
\* Direct calls of adjust_user_vector_with_feedback
\* ------------------------------------------------------------------------
\* a dict holding only some of the four keys (the seeded profiles hold
\* none of them: {"fitness": 3, "preference": "hiking", ...})
Partial(vector, keys) ==
    [ isdict |-> TRUE, keys |-> keys,
      difficulty_range |-> IF "difficulty_range" \in keys THEN vector.difficulty_range ELSE << >>,
      min_distance_km  |-> IF "min_distance_km" \in keys THEN vector.min_distance_km ELSE 0,
      max_distance_km  |-> IF "max_distance_km" \in keys THEN vector.max_distance_km ELSE 0,
      preferred_tags   |-> IF "preferred_tags" \in keys THEN vector.preferred_tags ELSE << >> ]

\* the preference vectors the function is called on
AdjustVectors ==
    { translate_questionnaire_to_vector("intermediate", << "Scenic", "panorama" >>),
      translate_questionnaire_to_vector("beginner", << >>),
      translate_questionnaire_to_vector("advanced", << "flora" >>),
      Vector(<< 4, 2 >>, 5000, 20000, << "scenic" >>),
      Vector(<< 2, 4 >>, 0, 0, << "flora" >>),
      Vector(<< 2 >>, 5000, 20000, << >>),
      Vector(<< 1, 3 >>, 5000, 7500, << "panorama", "Scenic", "forest" >>),
      Partial(NotADict, {}),
      Partial(translate_questionnaire_to_vector("intermediate", << >>),
              {"difficulty_range", "min_distance_km"}),
      NotADict }

\* the feedback entries a list is made of: (route_id, reason); route 9 is
\* not in route_vectors
AdjustChoices ==
    { << 1, "too-hard" >>, << 1, "too-easy" >>, << 3, "too-far" >>,
      << 1, "not-interested" >>, << 3, "not-interested" >>, << 9, "too-hard" >>,
      << 3, "other" >> }

RECURSIVE FeedbackLists(_)
FeedbackLists(n) ==
    IF n = 0 THEN { << >> }
    ELSE FeedbackLists(n - 1)
         \cup { Append(l, [ demo_profile_id |-> PROFILE, route_id |-> c[1], reason |-> c[2] ]) :
                    l \in { x \in FeedbackLists(n - 1) : Len(x) = n - 1 },
                    c \in AdjustChoices }

\* route_vectors = {route.id: extract_route_vector(route) for route in routes}
RouteVectors ==
    [ id \in RouteIds |-> extract_route_vector(CHOOSE r \in Range(Routes) : r.id = id) ]

\* the text a vector is stored as
Stored(vector) == IF vector.isdict THEN json_dumps(vector) ELSE JsonValue

InitAdjust ==
    /\ profiles \in { [ id \in {PROFILE} |-> [ user_vector_json |-> Stored(v) ] ] :
                        v \in AdjustVectors }
    /\ feedback \in FeedbackLists(MaxEntries)
    /\ last = Idle

\* adjusted = adjust_user_vector_with_feedback(json.loads(stored), feedback, route_vectors)
call_adjust_user_vector_with_feedback ==
    /\ last = Idle
    /\ last' = [ op |-> "adjust_user_vector_with_feedback",
                 user_vector |-> json_loads(profiles[PROFILE].user_vector_json).value,
                 result |-> adjust_user_vector_with_feedback_objects(
                                json_loads(profiles[PROFILE].user_vector_json).value,
                                feedback, RouteVectors) ]
    /\ UNCHANGED << profiles, feedback >>

NextAdjust == call_adjust_user_vector_with_feedback

SpecAdjust == InitAdjust /\ [][NextAdjust]_vars

\* ------------------------------------------------------------------------
\* Direct calls of the scorers
\* ------------------------------------------------------------------------
\* the tag lists calculate_tag_score is called on
ScoreTags == { "scenic", "Scenic", "flora", "panorama" }

ScoreTagLists ==
    { << >> } \cup { << t >> : t \in ScoreTags } \cup { << t, w >> : t, w \in ScoreTags }

\* difficulty levels of a route (0-6)
DifficultyLevels == 0..6

\* the ranges calculate_difficulty_score is called on, in half levels:
\* None, one bound, and every pair of bounds between 0 and 3
ScoreRanges ==
    { << >>, << 2 >> } \cup { << lo, hi >> : lo, hi \in 0..6 }

\* the stored vectors calculate_cbf_score is reached with
ScoreVectors ==
    { Vector(<< 2, 4 >>, 5000, 20000, << "forest" >>),
      translate_questionnaire_to_vector("intermediate", ADVENTURE_TYPE_TO_TAGS.natural_scenery),
      translate_questionnaire_to_vector("beginner", << >>),
      Vector(<< 2, 4 >>, 0, 0, << "flora" >>),
      Vector(<< 0, 2 >>, 0, 8000, << "Scenic" >>),
      Vector(<< >>, 5000, 20000, << "scenic" >>),
      Partial(NotADict, {}) }

\* the feedback the vector is adjusted with before scoring
ScoreFeedback ==
    { << >>,
      << [ demo_profile_id |-> PROFILE, route_id |-> 3, reason |-> "too-far" ] >>,
      << [ demo_profile_id |-> PROFILE, route_id |-> 1, reason |-> "not-interested" ] >> }

\* the rows that are scored
ScoreRoutes ==
    { [ id |-> 5, category_name |-> None, difficulty |-> d, length_meters |-> m,
        tags_json |-> t ] :
        d \in { None, Some(2), Some(5) },
        m \in { None, Some(0), Some(3000), Some(15000), Some(60000) },
        t \in { TagsNull, TagsList(<< >>), TagsList(<< Str("forest"), Str("scenic") >>) } }

InitScore ==
    /\ profiles = NoProfiles
    /\ feedback = << >>
    /\ last = Idle

\* calculate_tag_score(user_tags, route_tags)
call_calculate_tag_score(user_tags, route_tags) ==
    /\ last = Idle
    /\ last' = [ op |-> "calculate_tag_score",
                 user_tags |-> user_tags, route_tags |-> route_tags,
                 result |-> calculate_tag_score(user_tags, route_tags) ]
    /\ UNCHANGED << profiles, feedback >>

\* calculate_difficulty_score(user_difficulty_range, route_difficulty)
call_calculate_difficulty_score(user_difficulty_range, route_difficulty) ==
    /\ last = Idle
    /\ last' = [ op |-> "calculate_difficulty_score",
                 user_difficulty_range |-> user_difficulty_range,
                 route_difficulty |-> route_difficulty,
                 result |-> calculate_difficulty_score(user_difficulty_range, route_difficulty) ]
    /\ UNCHANGED << profiles, feedback >>

\* the scoring of one route in a ranking call: the stored vector, adjusted
\* when the profile has feedback, against the extracted route vector
call_calculate_cbf_score(stored, feedback_entries, route) ==
    LET adjusted == IF feedback_entries # << >>
                    THEN adjust_user_vector_with_feedback(stored, feedback_entries, RouteVectors)
                    ELSE [ raised |-> FALSE, vector |-> stored ]
        route_vector == extract_route_vector(route)
    IN /\ last = Idle
       /\ ~ adjusted.raised
       /\ last' = [ op |-> "calculate_cbf_score",
                    stored |-> stored, feedback_entries |-> feedback_entries,
                    user_vector |-> adjusted.vector,
                    route |-> route, route_vector |-> route_vector,
                    result |-> calculate_cbf_score(adjusted.vector, route_vector) ]
       /\ UNCHANGED << profiles, feedback >>

NextScore ==
    \/ \E user_tags \in ScoreTagLists, route_tags \in ScoreTagLists :
            call_calculate_tag_score(user_tags, route_tags)
    \/ \E r \in ScoreRanges, d \in DifficultyLevels :
            call_calculate_difficulty_score(r, d)
    \/ \E v \in ScoreVectors, f \in ScoreFeedback, route \in ScoreRoutes :
            call_calculate_cbf_score(v, f, route)

SpecScore == InitScore /\ [][NextScore]_vars

\* ------------------------------------------------------------------------
\* Vocabulary of the properties
\* ------------------------------------------------------------------------
\* a ranking call has returned a list
Ranked == last.op = "recommendations" /\ last.status = HTTP_200_OK

\* ... from the scoring branch
PersonalizedCall == Ranked /\ last.path = "personalized"

\* the feedback history of the subject
History == SelectSeq(feedback, LAMBDA f : f.demo_profile_id = PROFILE)

\* the number of entries of the history recorded for an item
Matching(id) == Cardinality({ i \in 1..Len(History) : History[i].route_id = id })

\* the candidates of the call in flight, and those not excluded
CallCandidates == Candidates(last.category)

CallKept == SelectSeq(CallCandidates, LAMBDA r : Matching(r.id) < 4)

Ids(rows) == { rows[i].id : i \in 1..Len(rows) }

\* the place of an item in the candidate list
Place(id) == CHOOSE i \in 1..Len(CallCandidates) : CallCandidates[i].id = id

\* the final score the call in flight gives a candidate
CallScore(r) ==
    ScoreRoute(r, extract_route_vector(r),
               AdjustedVector(profiles[PROFILE].user_vector_json.obj, History, CallCandidates).vector,
               History).item.recommendation_score

C4_StableOrder ==
    PersonalizedCall =>
        \A i, j \in 1..Len(last.routes) :
            i < j =>
                \/ last.routes[i].recommendation_score > last.routes[j].recommendation_score
                \/ /\ last.routes[i].recommendation_score = last.routes[j].recommendation_score
                   /\ Place(last.routes[i].id) < Place(last.routes[j].id)

\* a response with two items of equal score
C4_Witness ==
    /\ PersonalizedCall
    /\ Len(last.routes) >= 2
    /\ last.routes[1].recommendation_score = last.routes[2].recommendation_score
    /\ last.routes[1].recommendation_score > 0

\* C5: with limit >= 1 a result holds at most limit items, all distinct
\* and all candidates; a personalized result is the first limit entries
\* of the sorted non-excluded candidates, each with its final score and
\* its breakdown.
C5_TopLimit ==
    (Ranked /\ last.limit >= 1) =>
        /\ Len(last.routes) <= last.limit
        /\ \A i, j \in 1..Len(last.routes) : i # j => last.routes[i].id # last.routes[j].id
        /\ Ids(last.routes) \subseteq Ids(CallCandidates)
        /\ last.total = Len(last.routes)
        /\ last.path = "personalized" =>
              /\ Len(last.routes) = Min(last.limit, Len(CallKept))
              /\ Ids(last.routes) \subseteq Ids(CallKept)
              /\ \A i \in 1..Len(last.routes) :
                    LET it == last.routes[i]
                        b  == it.recommendation_score_breakdown
                    IN /\ it.scored
                       /\ b.feedback_adjusted
                       /\ it.recommendation_score = b.final_score
                       /\ b.total = b.difficulty.weighted_score
                                    + b.distance.weighted_score + b.tags.weighted_score
                       /\ \A r \in Range(CallKept) :
                             r.id \notin Ids(last.routes) =>
                                \/ it.recommendation_score > CallScore(r)
                                \/ /\ it.recommendation_score = CallScore(r)
                                   /\ Place(it.id) < Place(r.id)

\* a personalized result cut to the limit
C5_Witness ==
    /\ PersonalizedCall
    /\ last.limit >= 1
    /\ Len(last.routes) = last.limit
    /\ Len(CallKept) > last.limit

\* C6: whatever the stored preference payload that is not a preference
\* object (NULL, empty, not JSON, JSON that is not an object), a call with
\* the subject's id does not raise and returns a random unscored subset of
\* the candidates, of at most limit items.
C6_MalformedPayloadDegrades ==
    ( /\ last.op = "recommendations"
      /\ last.profile_id = Some(PROFILE)
      /\ last.limit >= 1
      /\ profiles[PROFILE].user_vector_json.kind # "object" ) =>
        /\ last.status = HTTP_200_OK
        /\ last.path = "fallback"
        /\ \A i \in 1..Len(last.routes) : ~ last.routes[i].scored
        /\ Ids(last.routes) \subseteq Ids(CallCandidates)
        /\ Len(last.routes) <= last.limit

\* C7: the reported mode matches what was computed: a call with a subject
\* id that fell back to random unscored items reports is_personalized =
\* false, and is_personalized = true only with scored items.
C7_ModeMatchesComputation ==
    (Ranked /\ last.limit >= 1) =>
        /\ (last.profile_id # None /\ last.path = "fallback") => ~ last.is_personalized
        /\ last.is_personalized => \A i \in 1..Len(last.routes) : last.routes[i].scored

\* C8: a call with limit <= 0 is rejected; it never returns a list.
C8_NonPositiveLimitRejected ==
    (last.op = "recommendations" /\ last.limit <= 0) => ~ Ranked

\* C9: a call whose category is given but is not a known filter key is
\* rejected; it is never answered with the unfiltered candidates.
C9_UnknownCategoryRejected ==
    ( /\ last.op = "recommendations"
      /\ last.limit >= 1
      /\ last.category # None
      /\ last.category[1] \notin {"running", "hiking", "cycling"} ) => ~ Ranked

\* the id sets a call without subject id can return
ColdStartResults(category, limit) ==
    { Ids(o.routes) : o \in get_recommended_routes(profiles, feedback, None, category, limit) }

Prefetched ==
    IF last.limit < 0 THEN CallCandidates
    ELSE SubSeq(CallCandidates, 1, Min(3 * last.limit, Len(CallCandidates)))

Extracted == last.op = "extract_route_vector"

\* str.islower-like test on the tag alphabet: lower-casing changes nothing
IsLowerCased(tag) == lower(tag) = tag

\* the payload is a list of strings and {name} objects with string names
WellFormedList(payload) ==
    /\ payload.kind = "list"
    /\ \A i \in 1..Len(payload.items) : payload.items[i].t \in {"str", "dict"}

\* C11: extract_route_vector never raises and always returns a list of
\* lower-cased strings as tags, whatever the tag payload; a payload that is
\* not a list (absent, empty, not JSON, JSON of another type) yields the
\* empty list; a missing difficulty yields 0 and a missing length 0.0.
C11_ExtractionIsTotal ==
    Extracted =>
        LET route == last.route
            v == last.result
        IN /\ ~ v.raised
           /\ v.tags_type = "list"
           /\ \A i \in 1..Len(v.tags) : IsLowerCased(v.tags[i])
           /\ route.tags_json.kind # "list" => v.tags = << >>
           /\ route.difficulty = None => v.difficulty = 0
           /\ route.length_meters = None => v.length_km = 0

\* a direct call of adjust_user_vector_with_feedback has returned or raised
Adjusted == last.op = "adjust_user_vector_with_feedback"

\* dict equality: the same keys with the same values
SameDict(v, w) ==
    /\ v.isdict = w.isdict
    /\ v.keys = w.keys
    /\ \A k \in v.keys : v[k] = w[k]

\* C12: after a call the caller's preference vector, the feedback list and
\* the item-vector map are what they were before it, whatever the feedback
\* and also when a fallback restores a field; the returned vector is the
\* adjusted one.
C12_InputsNotMutated ==
    Adjusted =>
        /\ last.result.user_vector = last.user_vector
        /\ last.result.feedback_entries = feedback
        /\ last.result.route_vectors = RouteVectors
        /\ ~ last.result.raised =>
              SameDict(last.result.vector,
                       adjust_user_vector_with_feedback(last.user_vector, feedback, RouteVectors).vector)

\* a call whose result differs from its input in the range and in the tags
C12_Witness ==
    /\ Adjusted
    /\ ~ last.result.raised
    /\ "difficulty_range" \in last.user_vector.keys
    /\ last.result.vector.difficulty_range # last.user_vector.difficulty_range
    /\ last.result.vector.preferred_tags # last.user_vector.preferred_tags
    /\ last.result.user_vector = last.user_vector

\* a call in which the inverted-range fallback ran after the range was moved
C12_FallbackWitness ==
    /\ Adjusted
    /\ ~ last.result.raised
    /\ last.user_vector.difficulty_range = << 4, 2 >>
    /\ \E i \in 1..Len(feedback) : feedback[i].reason = "too-hard" /\ feedback[i].route_id = 1
    /\ last.result.vector.difficulty_range = << 4, 2 >>

\* C13 as stated: with an empty feedback list the vector the function
\* returns is equal to its input, for every input vector.
C13_EmptyFeedbackIsIdentity ==
    (Adjusted /\ feedback = << >> /\ ~ last.result.raised) =>
        SameDict(last.result.vector, last.user_vector)

\* the keys the function initialises, with the values it gives them
AdjustDefaults ==
    [ difficulty_range |-> DEFAULT_RANGE,
      max_distance_km  |-> DEFAULT_MAX_KM,
      preferred_tags   |-> << >> ]

\* C13 amended: with an empty feedback list the function returns the input
\* with difficulty_range [0, 3], max_distance_km 100.0 and preferred_tags
\* [] added for those of the three keys the input lacks, every key of the
\* input keeping its value; the result equals the input exactly when the
\* input holds the three keys.  It raises when the input is not an object
\* or holds a difficulty_range of fewer than two bounds.
C13_EmptyFeedbackFillsDefaults ==
    (Adjusted /\ feedback = << >>) =>
        LET u == last.user_vector
            v == last.result.vector
        IN IF ~ u.isdict \/ ("difficulty_range" \in u.keys /\ Len(u.difficulty_range) < 2)
           THEN last.result.raised
           ELSE /\ ~ last.result.raised
                /\ v.isdict
                /\ v.keys = u.keys \cup DOMAIN AdjustDefaults
                /\ \A k \in u.keys : v[k] = u[k]
                /\ \A k \in DOMAIN AdjustDefaults \ u.keys : v[k] = AdjustDefaults[k]
                /\ SameDict(v, u) <=> DOMAIN AdjustDefaults \subseteq u.keys

\* a call with an empty list on a vector that holds every key, one of
\* them with the value 0
C13_Witness ==
    /\ Adjusted
    /\ feedback = << >>
    /\ ~ last.result.raised
    /\ DOMAIN AdjustDefaults \subseteq last.user_vector.keys
    /\ last.user_vector.max_distance_km = 0
    /\ SameDict(last.result.vector, last.user_vector)

\* a direct call of calculate_tag_score has returned
TagScored == last.op = "calculate_tag_score"

\* a tag list as a set of tags compared without case
TagSet(tags) == { lower(t) : t \in Range(tags) }

\* C14: the tag score of (A, B) is the tag score of (B, A), and the tag
\* score of two non-empty lists that hold the same tags (compared without
\* case) is 1.0.
C14_TagScoreSymmetric ==
    TagScored =>
        /\ last.result = calculate_tag_score(last.route_tags, last.user_tags)
        /\ (last.user_tags # << >> /\ TagSet(last.user_tags) = TagSet(last.route_tags))
              => last.result = ONE

\* a call on two lists of different sizes that share a tag written in
\* different cases
C14_Witness ==
    /\ TagScored
    /\ Len(last.user_tags) = 1
    /\ Cardinality(TagSet(last.route_tags)) = 2
    /\ last.user_tags[1] # last.route_tags[1]
    /\ lower(last.user_tags[1]) = last.route_tags[1]
    /\ last.result = ONE \div 2

\* a direct call of calculate_difficulty_score has returned
DifficultyScored == last.op = "calculate_difficulty_score"

\* the distance of a difficulty from the band [min, max], in half levels
BandDistance(range, route_difficulty) ==
    IF 2 * route_difficulty < range[1] THEN range[1] - 2 * route_difficulty
    ELSE IF 2 * route_difficulty > range[2] THEN 2 * route_difficulty - range[2]
    ELSE 0

CbfScored == last.op = "calculate_cbf_score"

\* the scenario of the specification: preference {[1, 2], 5 km, 20 km,
\* {forest}} against item {difficulty 2, 15 km, {forest, scenic}}
Scenario ==
    /\ CbfScored
    /\ last.user_vector = Vector(<< 2, 4 >>, 5000, 20000, << "forest" >>)
    /\ last.route_vector.difficulty = 2
    /\ last.route_vector.length_km = 15000
    /\ last.route_vector.tags = << "forest", "scenic" >>

\* C16: the score calculate_cbf_score returns is 0.4 * difficulty score
\* + 0.3 * distance score + 0.3 * tag score of the three scorers, the
\* weights sum to 1.0, the score lies in [0, 1], the total of the
\* breakdown is the score and the sum of the three weighted scores; in the
\* scenario the components are 1.0, 1.0 and 0.5 and the score is 0.85.
C16_WeightedSum ==
    (CbfScored /\ ~ last.result.raised) =>
        LET b == last.result.breakdown
            u == last.user_vector
            r == last.route_vector
        IN /\ b.difficulty.weight = 4 /\ b.distance.weight = 3 /\ b.tags.weight = 3
           /\ b.difficulty.weight + b.distance.weight + b.tags.weight = 10
           /\ b.difficulty.score =
                 calculate_difficulty_score(get(u, "difficulty_range", << 0, 6 >>), r.difficulty)
           /\ b.distance.score =
                 calculate_distance_score(get(u, "min_distance_km", 0),
                                          get(u, "max_distance_km", 100000), r.length_km)
           /\ b.tags.score = calculate_tag_score(get(u, "preferred_tags", << >>), r.tags)
           /\ 10 * last.result.score =
                 4 * b.difficulty.score + 3 * b.distance.score + 3 * b.tags.score
           /\ 0 <= last.result.score /\ last.result.score <= ONE
           /\ b.total = last.result.score
           /\ b.total = b.difficulty.weighted_score + b.distance.weighted_score
                        + b.tags.weighted_score
           /\ Scenario =>
                 /\ b.difficulty.score = ONE
                 /\ b.distance.score = ONE
                 /\ b.tags.score = ONE \div 2
                 /\ last.result.score = 8500000

\* the scenario has been scored
C16_Witness == Scenario /\ ~ last.result.raised /\ last.feedback_entries = << >>

\* C17: scoring never raises: for every stored preference object, adjusted
\* by feedback or not, max_distance_km = 0 and min_distance_km = 0
\* included, and every extracted route vector, length 0 and empty tags
\* included, the three scorers return values in [0, 1].
C17_ScoringNeverRaises ==
    CbfScored =>
        LET b == last.result.breakdown
        IN /\ ~ last.result.raised
           /\ 0 <= b.difficulty.score /\ b.difficulty.score <= ONE
           /\ 0 <= b.distance.score /\ b.distance.score <= ONE
           /\ 0 <= b.tags.score /\ b.tags.score <= ONE

C19_FilteredAtThreeEntries ==
    (PersonalizedCall /\ last.limit >= 1) =>
        \A i \in 1..Len(last.routes) : Matching(last.routes[i].id) < 3

\* C20: the penalty multiplier of a route with exactly one matching entry
\* is 0.05 and that of a route with exactly two matching entries is 0.01
\* (here in percent).
C20_PenaltyOfTheTest ==
    \A id \in RouteIds :
        /\ Matching(id) = 1 => calculate_feedback_penalty(id, History) = 5
        /\ Matching(id) = 2 => calculate_feedback_penalty(id, History) = 1

\* ------------------------------------------------------------------------
\* Properties of a growing history
\* ------------------------------------------------------------------------
\* the history of the subject within a feedback table
HistoryOf(table) == SelectSeq(table, LAMBDA f : f.demo_profile_id = PROFILE)

\* the multiplier a ranking call on that table gives an item
PenaltyOf(table, id) == calculate_feedback_penalty(id, HistoryOf(table))

\* a ranking call on that table leaves the item out
ExcludedOf(table, id) ==
    should_filter(route_feedback_count(id, HistoryOf(table)))

LastEntry == feedback[Len(feedback)]

Available(f) == f.route_id \in DOMAIN RouteVectors

\* a call that returned, on a list whose last entry has that reason and an
\* item with a vector
AdjustedBy(reason) ==
    /\ Adjusted
    /\ ~ last.result.raised
    /\ feedback # << >>
    /\ LastEntry.reason = reason
    /\ Available(LastEntry)

\* the vector the function returns for the list without its last entry
Before ==
    adjust_user_vector_with_feedback(last.user_vector,
                                     SubSeq(feedback, 1, Len(feedback) - 1),
                                     RouteVectors).vector

\* the range the call started from has its bounds in order
OrderedInput ==
    LET range == get(last.user_vector, "difficulty_range", DEFAULT_RANGE)
    IN range[1] <= range[2]

\* every entry of the list has that reason and an item with a vector
Only(reason) ==
    \A i \in 1..Len(feedback) : feedback[i].reason = reason /\ Available(feedback[i])

\* C22: a too-hard entry lowers both bounds of the range by 0.5, never
\* below 0, and when the lower bound becomes 0 and the upper bound would
\* fall below 1.0 the upper bound is set to 1.0; from [1, 2] one entry
\* gives [0.5, 1.5], two give [0, 1.0], three leave [0, 1.0].
C22_TooHardStep ==
    (AdjustedBy("too-hard") /\ OrderedInput) =>
        LET b == Before.difficulty_range
            r == last.result.vector.difficulty_range
        IN /\ r[1] = Max(0, b[1] - 1)
           /\ r[2] = (IF r[1] = 0 /\ b[2] - 1 < 2 THEN 2 ELSE b[2] - 1)
           /\ (last.user_vector.difficulty_range = << 2, 4 >> /\ Only("too-hard")) =>
                 r = (CASE Len(feedback) = 1 -> << 1, 3 >> [] OTHER -> << 0, 2 >>)

\* three too-hard entries on [1, 2]: the third leaves [0, 1.0]
C22_Witness ==
    /\ AdjustedBy("too-hard")
    /\ last.user_vector.difficulty_range = << 2, 4 >>
    /\ Only("too-hard")
    /\ Len(feedback) = 3
    /\ Before.difficulty_range = << 0, 2 >>
    /\ last.result.vector.difficulty_range = << 0, 2 >>

Entries(reason) ==
    Cardinality({ i \in 1..Len(feedback) :
                    feedback[i].reason = reason /\ Available(feedback[i]) })

\* C24: a too-far entry sets max_distance_km to the larger of 0.9 times
\* its previous value and min_distance_km + 2.0 and leaves min_distance_km
\* as it was, so after one or more too-far entries the adjusted
\* max_distance_km is not below min_distance_km + 2.0.
C24_TooFarStep ==
    /\ AdjustedBy("too-far") =>
          /\ last.result.vector.max_distance_km
                = Max((Before.max_distance_km * 9) \div 10,
                      get(last.user_vector, "min_distance_km", 0) + 2000)
          /\ last.result.vector.min_distance_km = Before.min_distance_km
    /\ (Adjusted /\ ~ last.result.raised) =>
          /\ last.result.vector.min_distance_km = last.user_vector.min_distance_km
          /\ ("min_distance_km" \in last.result.vector.keys)
                <=> ("min_distance_km" \in last.user_vector.keys)
          /\ Entries("too-far") >= 1 =>
                last.result.vector.max_distance_km
                    >= get(last.user_vector, "min_distance_km", 0) + 2000

\* a second too-far entry that the gap stops: 0.9 * 7.0 km is below
\* 5.0 km + 2.0 km
C24_Witness ==
    /\ AdjustedBy("too-far")
    /\ Entries("too-far") = 2
    /\ last.user_vector.min_distance_km = 5000
    /\ last.user_vector.max_distance_km = 7500
    /\ Before.max_distance_km = 7000
    /\ last.result.vector.max_distance_km = 7000

\* the tags, lower-cased, of the items with a not-interested entry and a
\* vector
Rejected ==
    UNION { { lower(t) : t \in Range(RouteVectors[feedback[i].route_id].tags) } :
                i \in { j \in 1..Len(feedback) :
                            feedback[j].reason = "not-interested" /\ Available(feedback[j]) } }

\* C25: the adjusted preferred_tags are the preferred tags of the input
\* without those that match, whatever their case, a tag of an item with a
\* not-interested entry and a vector: none of those is left, every other
\* tag is kept in its place, and no tag is added.
C25_NotInterestedRemovesTags ==
    (Adjusted /\ ~ last.result.raised) =>
        LET tags == get(last.user_vector, "preferred_tags", << >>)
            kept == last.result.vector.preferred_tags
        IN /\ \A i \in 1..Len(kept) : lower(kept[i]) \notin Rejected
           /\ kept = SelectSeq(tags, LAMBDA t : lower(t) \notin Rejected)
           /\ Range(kept) \subseteq Range(tags)

\* a call that removed a tag spelled with a capital and kept two others in
\* their order
C25_Witness ==
    /\ Adjusted
    /\ ~ last.result.raised
    /\ last.user_vector.preferred_tags = << "panorama", "Scenic", "forest" >>
    /\ Rejected = {"scenic", "flora"}
    /\ last.result.vector.preferred_tags = << "panorama", "forest" >>

\* ------------------------------------------------------------------------
\* Statements of test_adjust_user_vector
\* ------------------------------------------------------------------------
\* a call that returned, on a list of one entry with that reason and an
\* item with a vector, from a range with its bounds in order
OneEntry(reason) ==
    /\ AdjustedBy(reason)
    /\ Len(feedback) = 1
    /\ OrderedInput

\* the values the call started from
StartRange == get(last.user_vector, "difficulty_range", DEFAULT_RANGE)

StartMin == get(last.user_vector, "min_distance_km", 0)

StartMax == get(last.user_vector, "max_distance_km", DEFAULT_MAX_KM)

\* C26 as stated: for every preference vector, one too-hard entry gives an
\* upper bound strictly below the original, one too-easy entry a lower
\* bound strictly above it, one too-far entry a max_distance_km strictly
\* below it.
C26_EntryMovesStrictly ==
    /\ OneEntry("too-hard") => last.result.vector.difficulty_range[2] < StartRange[2]
    /\ OneEntry("too-easy") => last.result.vector.difficulty_range[1] > StartRange[1]
    /\ OneEntry("too-far") => last.result.vector.max_distance_km < StartMax

\* C26 amended: for a range with 0 <= min <= max <= 3, one too-hard entry
\* gives an upper bound strictly below the original unless min <= 0.5 and
\* max <= 1.0, where it gives 1.0; one too-easy entry gives a lower bound
\* strictly above the original unless min >= 2.0 and max >= 2.5, where it
\* gives 2.0; one too-far entry gives a max_distance_km strictly below the
\* original unless the original is not above min_distance_km + 2.0, where
\* it gives min_distance_km + 2.0.
C26_EntryMovesUnlessClamped ==
    LET r == last.result.vector
    IN /\ OneEntry("too-hard") =>
            IF StartRange[1] <= 1 /\ StartRange[2] <= 2
            THEN r.difficulty_range[2] = 2
            ELSE r.difficulty_range[2] < StartRange[2]
       /\ OneEntry("too-easy") =>
            IF StartRange[1] >= 4 /\ StartRange[2] >= 5
            THEN r.difficulty_range[1] = 4
            ELSE r.difficulty_range[1] > StartRange[1]
       /\ OneEntry("too-far") =>
            IF StartMax <= StartMin + 2000
            THEN r.max_distance_km = StartMin + 2000
            ELSE r.max_distance_km < StartMax

\* one too-hard entry on the beginner's range [0, 1]: the upper bound is
\* 1.0 as before
C26_Witness ==
    /\ OneEntry("too-hard")
    /\ StartRange = << 0, 2 >>
    /\ last.result.vector.difficulty_range = << 0, 2 >>

\* the vector of the test, on which the three entries move strictly
C26_TestWitness ==
    /\ OneEntry("too-far")
    /\ StartRange = << 2, 4 >>
    /\ StartMin = 5000
    /\ StartMax = 20000
    /\ last.result.vector.max_distance_km = 18000

\* ------------------------------------------------------------------------
\* Properties of the stored vector
\* ------------------------------------------------------------------------
\* the vector the profile's column holds
StoredVector == json_loads(profiles[PROFILE].user_vector_json).value

\* the vector the questionnaire gave the profile: min_distance_km is never
\* assigned after it and tells the questionnaire vectors apart
OriginalVector ==
    CHOOSE v \in QuestionnaireVectors : v.min_distance_km = StoredVector.min_distance_km

\* the vector the call in flight scores with
UsedVector == AdjustedVector(StoredVector, History, CallCandidates).vector

\* C27: the vector a personalized call scores with is the questionnaire
\* vector adjusted once by the history at that point, each entry counting
\* for one step, whatever submit_feedback stored in between.
C27_SingleAdjustment ==
    (/\ PersonalizedCall
     /\ last.limit >= 1
     /\ last.category = None
     /\ profiles[PROFILE].user_vector_json.kind = "object")
        => UsedVector
             = adjust_user_vector_with_feedback(OriginalVector, History, RouteVectors).vector

\* ------------------------------------------------------------------------
\* Properties of the order of the entries
\* ------------------------------------------------------------------------
\* C28: the adjusted vector does not depend on the order of the feedback
\* entries: every permutation of the list gives the vector the call
\* returned.
C28_OrderIndependent ==
    (/\ Adjusted
     /\ ~ last.result.raised
     /\ OrderedInput
     /\ DOMAIN AdjustDefaults \subseteq last.user_vector.keys) =>
        \A entries \in Shuffles(feedback) :
            adjust_user_vector_with_feedback(last.user_vector, entries, RouteVectors).vector
                = last.result.vector

\* C29: the vector a personalized call scores with does not depend on its
\* category: a call with any other category, or none, on the same stored
\* vector and history uses the same adjusted vector.
C29_CategoryIndependent ==
    (/\ PersonalizedCall
     /\ last.limit >= 1
     /\ profiles[PROFILE].user_vector_json.kind = "object")
        => \A category \in Categories :
              AdjustedVector(StoredVector, History, Candidates(category)).vector = UsedVector

\* ------------------------------------------------------------------------
\* Properties of the difficulty range
\* ------------------------------------------------------------------------
\* 0 <= min <= max <= 3 and max - min >= 1, in half levels
ValidRange(range) ==
    /\ Len(range) = 2
    /\ 0 <= range[1]
    /\ range[1] <= range[2]
    /\ range[2] <= 6
    /\ range[2] - range[1] >= 2

\* C30: from an input range (the default [0, 3] when the key is absent)
\* with 0 <= min <= max <= 3 and max - min >= 1 the adjusted range
\* satisfies the same after each entry of the list, and the inverted-range
\* fallback is not taken.
C30_RangeStaysValid ==
    (/\ Adjusted
     /\ last.user_vector.isdict
     /\ ValidRange(StartRange))
        => /\ ~ last.result.raised
           /\ ValidRange(last.result.vector.difficulty_range)
           /\ "difficulty_range" \notin last.result.fallbacks
           /\ \A n \in 0..Len(feedback) :
                ValidRange(adjust_user_vector_with_feedback(
                               last.user_vector, SubSeq(feedback, 1, n),
                               RouteVectors).vector.difficulty_range)

\* three entries that take [1, 2] to the floor and up again: [0.5, 1.5],
\* [0, 1.0], [0.5, 1.5]
C30_Witness ==
    /\ Adjusted
    /\ last.user_vector.difficulty_range = << 2, 4 >>
    /\ Len(feedback) = 3
    /\ feedback[1].reason = "too-hard" /\ Available(feedback[1])
    /\ feedback[2].reason = "too-hard" /\ Available(feedback[2])
    /\ feedback[3].reason = "too-easy" /\ Available(feedback[3])
    /\ Before.difficulty_range = << 0, 2 >>
    /\ last.result.vector.difficulty_range = << 1, 3 >>
    /\ last.result.fallbacks = {}

====
